---- MODULE Spec2Model ----
(***************************************************************************)
(* Stationery inventory (src/app.py): a CSV file used as a database, an    *)
(* identifier generator, CRUD pages and an issue/receive page.             *)
(*                                                                         *)
(* Text is modelled as a sequence of one-character strings, so that        *)
(* str.strip, str.split, int(), f"{n:04d}" and the CSV round trip are      *)
(* computed as Python / pandas compute them.  A missing cell of a text     *)
(* column (pandas NaN) is the value NaN below.                             *)
(***************************************************************************)
EXTENDS Integers, Sequences, FiniteSets, TLC

VARIABLES
    exists,    \* whether stationery_inventory.csv exists
    file,      \* rows of stationery_inventory.csv (every cell is text)
    now,       \* wall clock, in seconds after the epoch of StrfTime
    nops,      \* number of interactions run so far
    last,      \* record of the most recent interaction
    prev,      \* record of the interaction before it
    assigned,  \* ids handed out by "Add item" so far
    sess,      \* per browser session: position, loaded table, submitted input
    saves,     \* number of save_data calls made by the sessions
    arg,       \* argument table of a direct call of generate_item_id
    res        \* result of that call

vars == <<exists, file, now, nops, last, prev, assigned, sess, saves, arg, res>>

(***************************************************************************)
(* Python text primitives                                                  *)
(***************************************************************************)
NaN == <<"NaN">>

DigitChars == <<"0", "1", "2", "3", "4", "5", "6", "7", "8", "9">>

DigitSet == {DigitChars[i] : i \in 1..10}

Whitespace == {" "}

DigitVal(c) == (CHOOSE i \in 1..10 : DigitChars[i] = c) - 1

RECURSIVE LStrip(_, _)
LStrip(s, cs) ==
    IF s # <<>> /\ Head(s) \in cs THEN LStrip(Tail(s), cs) ELSE s

RECURSIVE RStrip(_, _)
RStrip(s, cs) ==
    IF s # <<>> /\ s[Len(s)] \in cs THEN RStrip(SubSeq(s, 1, Len(s) - 1), cs) ELSE s

\* str.strip(chars): drops leading and trailing characters that are in chars
Strip(s, cs) == RStrip(LStrip(s, cs), cs)

StartsWith(s, p) == Len(p) <= Len(s) /\ SubSeq(s, 1, Len(p)) = p

EndsWith(s, p) == Len(p) <= Len(s) /\ SubSeq(s, Len(s) - Len(p) + 1, Len(s)) = p

Contains(s, p) ==
    \E i \in 1..(Len(s) - Len(p) + 1) : SubSeq(s, i, i + Len(p) - 1) = p

\* str(x).split("-")[-1]: the text after the last "-", the whole text if none
LastSegment(s) ==
    LET dash == {i \in 1..Len(s) : s[i] = "-"}
    IN  IF dash = {} THEN s
        ELSE SubSeq(s, (CHOOSE i \in dash : \A j \in dash : j <= i) + 1, Len(s))

\* mode.split()[0]: the first whitespace-separated word
FirstWord(s) ==
    LET t  == LStrip(s, Whitespace)
        ws == {i \in 1..Len(t) : t[i] \in Whitespace}
    IN  IF ws = {} THEN t
        ELSE SubSeq(t, 1, (CHOOSE i \in ws : \A j \in ws : i <= j) - 1)

RECURSIVE DecVal(_)
DecVal(s) ==
    IF s = <<>> THEN 0 ELSE 10 * DecVal(SubSeq(s, 1, Len(s) - 1)) + DigitVal(s[Len(s)])

IsDigits(s) == s # <<>> /\ \A i \in 1..Len(s) : s[i] \in DigitSet

\* int(text): surrounding whitespace and one sign are accepted; anything
\* else raises ValueError
IntBody(s) ==
    LET u == Strip(s, Whitespace)
    IN  IF u # <<>> /\ Head(u) \in {"+", "-"} THEN Tail(u) ELSE u

IntParses(s) == IsDigits(IntBody(s))

IntOf(s) ==
    LET u == Strip(s, Whitespace)
        v == DecVal(IntBody(s))
    IN  IF u # <<>> /\ Head(u) = "-" THEN 0 - v ELSE v

RECURSIVE Dec(_)
Dec(n) ==
    IF n < 10 THEN <<DigitChars[n + 1]>> ELSE Dec(n \div 10) \o <<DigitChars[(n % 10) + 1]>>

\* str(int)
StrInt(n) == IF n < 0 THEN <<"-">> \o Dec(0 - n) ELSE Dec(n)

RECURSIVE ZeroPad(_, _)
ZeroPad(s, w) == IF Len(s) >= w THEN s ELSE ZeroPad(<<"0">> \o s, w)

IdWidth == 4

IdPrefix == <<"S", "T", "N", "-">>

\* f"STN-{n:03d}"
FormatId3(n) == IdPrefix \o ZeroPad(Dec(n), 3)

\* f"STN-{n:04d}"
FormatId(n) == IdPrefix \o ZeroPad(Dec(n), IdWidth)

(***************************************************************************)
(* generate_item_id                                                        *)
(***************************************************************************)
\* the suffixes of the ids of df that int() accepts (NaN ids are dropped)
IdNums(df) ==
    {IntOf(LastSegment(df[i].item_id)) :
        i \in {j \in 1..Len(df) :
                  /\ df[j].item_id # NaN
                  /\ IntParses(LastSegment(df[j].item_id))}}

MaxOf(S) == CHOOSE m \in S : \A x \in S : x <= m

\* a generator that numbers by the count of ids
NextNumCount(nums) == Cardinality(nums) + 1

\* a generator that fills the first gap
NextNumGap(nums) == CHOOSE n \in 1..(Cardinality(nums) + 1) : n \notin nums

\* next_num = max(nums) + 1 if nums else 1
NextNum(nums) == IF nums # {} THEN MaxOf(nums) + 1 ELSE 1

generate_item_id(df) ==
    IF df = <<>> THEN FormatId(1) ELSE FormatId(NextNum(IdNums(df)))

(***************************************************************************)
(* Data layer                                                              *)
(***************************************************************************)
Row(id, name, cat, unit, qty, reorder, loc, upd, rem) ==
    [item_id |-> id, item_name |-> name, category |-> cat, unit |-> unit,
     quantity |-> qty, reorder_level |-> reorder, location |-> loc,
     last_updated |-> upd, remarks |-> rem]

\* pd.read_csv on a text column: an empty cell is NaN
ReadText(c) == IF c = <<>> THEN NaN ELSE c

\* DataFrame.to_csv on a text column: NaN is written as an empty cell
WriteText(v) == IF v = NaN THEN <<>> ELSE v

\* pd.to_numeric(..., errors="coerce").fillna(0).astype(int)
ToNumeric(c) ==
    LET b == IF c # <<>> /\ Head(c) = "-" THEN Tail(c) ELSE c
    IN  IF ~IsDigits(b) THEN 0
        ELSE IF Head(c) = "-" THEN 0 - DecVal(b) ELSE DecVal(b)

ReadRow(r) ==
    Row(ReadText(r.item_id), ReadText(r.item_name), ReadText(r.category),
        ReadText(r.unit), ToNumeric(r.quantity), ToNumeric(r.reorder_level),
        ReadText(r.location), ReadText(r.last_updated), ReadText(r.remarks))

WriteRow(r) ==
    Row(WriteText(r.item_id), WriteText(r.item_name), WriteText(r.category),
        WriteText(r.unit), StrInt(r.quantity), StrInt(r.reorder_level),
        WriteText(r.location), WriteText(r.last_updated), WriteText(r.remarks))

\* init_data_file: the rows of the file once it is sure to exist
init_data_file(e, f) == IF e THEN f ELSE <<>>

load_data(e, f) ==
    LET rows == init_data_file(e, f)
    IN  [i \in 1..Len(rows) |-> ReadRow(rows[i])]

\* the file content df.to_csv(DATA_FILE, index=False) leaves
save_data(df) == [i \in 1..Len(df) |-> WriteRow(df[i])]

\* datetime.now().strftime("%Y-%m-%d %H:%M:%S"), t seconds after the epoch
StrfTime(t) ==
    <<"2", "0", "2", "4", "-", "0", "1", "-", "0", "1", " ">>
        \o ZeroPad(Dec((t \div 3600) % 24), 2) \o <<":">>
        \o ZeroPad(Dec((t \div 60) % 60), 2) \o <<":">>
        \o ZeroPad(Dec(t % 60), 2)

\* Series == value: NaN equals nothing, itself included
IdEq(a, b) == a # NaN /\ b # NaN /\ a = b

\* str() of a cell inside an f-string
CellStr(v) == IF v = NaN THEN <<"n", "a", "n">> ELSE v

\* f"{row.item_id} - {row.item_name}"
Label(r) == CellStr(r.item_id) \o <<" ", "-", " ">> \o CellStr(r.item_name)

\* item_map[selected]: a later row with the same label replaces an earlier one
SelectedId(df, i) ==
    LET same == {j \in 1..Len(df) : Label(df[j]) = Label(df[i])}
    IN  df[MaxOf(same)].item_id

Matches(df, id) == {j \in 1..Len(df) : IdEq(df[j].item_id, id)}

MinOf(X) == CHOOSE m \in X : \A x \in X : m <= x

RECURSIVE SelectRows(_, _)
SelectRows(df, keep) ==
    IF df = <<>> THEN <<>>
    ELSE LET rest == SelectRows(Tail(df), {k - 1 : k \in keep \ {1}})
         IN  IF 1 \in keep THEN <<Head(df)>> \o rest ELSE rest

(***************************************************************************)
(* Pages.  Each returns the outcome of one run of the page on the table df *)
(* it was given: the message shown, whether save_data was called, and the  *)
(* table passed to it.                                                     *)
(***************************************************************************)
NoForm ==
    [item_name |-> <<>>, category |-> <<>>, unit |-> <<>>, location |-> <<>>,
     quantity |-> 0, reorder_level |-> 0, remarks |-> <<>>]

Outcome(op, msg, saved, before, after, id, idx, line) ==
    [op |-> op, msg |-> msg, saved |-> saved, before |-> before, after |-> after,
     id |-> id, idx |-> idx, line |-> line]

NoOutcome == Outcome("none", "none", FALSE, <<>>, <<>>, NaN, 0, <<>>)

\* the default applied without trimming
OrDefaultNoStrip(s, d) == IF s # <<>> THEN s ELSE d

OrDefault(s, d) == IF Strip(s, Whitespace) # <<>> THEN Strip(s, Whitespace) ELSE d

Uncategorized == <<"U", "n", "c", "a", "t", "e", "g", "o", "r", "i", "z", "e", "d">>

Nos == <<"N", "o", "s">>

NotSpecified == <<"N", "o", "t", " ", "s", "p", "e", "c", "i", "f", "i", "e", "d">>

\* the row built from a submitted form
FormRow(id, f, t) ==
    Row(id, Strip(f.item_name, Whitespace), OrDefault(f.category, Uncategorized),
        OrDefault(f.unit, Nos), f.quantity, f.reorder_level,
        OrDefault(f.location, NotSpecified), StrfTime(t), Strip(f.remarks, Whitespace))

\* page_add_edit, mode "Add new item", form submitted
page_add(df, f, t) ==
    IF Strip(f.item_name, Whitespace) = <<>>
    THEN Outcome("add", "error", FALSE, df, df, NaN, 0, <<>>)
    ELSE LET new_id == generate_item_id(df)
         IN  Outcome("add", "success", TRUE, df, Append(df, FormRow(new_id, f, t)),
                     new_id, Len(df) + 1, <<>>)

\* page_add_edit, mode "Update existing item", row i selected, form submitted
page_update(df, i, f, t) ==
    IF df = <<>> THEN Outcome("update", "info", FALSE, df, df, NaN, 0, <<>>) ELSE
    LET selected_id == SelectedId(df, i)
        hits == Matches(df, selected_id)
    IN  IF hits = {}
        THEN Outcome("update", "exception", FALSE, df, df, selected_id, 0, <<>>)
        ELSE IF Strip(f.item_name, Whitespace) = <<>>
        THEN Outcome("update", "error", FALSE, df, df, selected_id, MinOf(hits), <<>>)
        ELSE LET idx == MinOf(hits)
             IN  Outcome("update", "success", TRUE, df,
                         [df EXCEPT ![idx] = FormRow(selected_id, f, t)],
                         selected_id, idx, <<>>)

ModeIssue ==
    <<"I", "s", "s", "u", "e", " ", "(", "d", "e", "c", "r", "e", "a", "s", "e", " ",
      "s", "t", "o", "c", "k", ")">>

ModeReceive ==
    <<"R", "e", "c", "e", "i", "v", "e", " ", "(", "i", "n", "c", "r", "e", "a", "s", "e",
      " ", "s", "t", "o", "c", "k", ")">>

Modes == {ModeIssue, ModeReceive}

\* the audit line with the verb of the success message, f"{mode.split()[0]}d"
AuditLinePast(t, mode, qty, reason) ==
    <<"[">> \o StrfTime(t) \o <<"]", " ">> \o FirstWord(mode) \o <<"d", " ">>
        \o StrInt(qty) \o <<" ", "(">> \o reason \o <<")">>

\* f"[{now}] {mode.split()[0]} {int(qty)} ({reason})"
AuditLine(t, mode, qty, reason) ==
    <<"[">> \o StrfTime(t) \o <<"]", " ">> \o FirstWord(mode) \o <<" ">>
        \o StrInt(qty) \o <<" ", "(">> \o reason \o <<")">>

Separator == <<" ", "|", " ">>

\* (old_remarks + " | " + line).strip(" |")
JoinRemarks(old, line) ==
    Strip((IF old = NaN THEN <<>> ELSE old) \o Separator \o line, {" ", "|"})

\* the check with an off-by-one, and with the comparison reversed
InsufficientOffByOne(op, qty, current_qty) == op = "issue" /\ qty > current_qty + 1

InsufficientReversed(op, qty, current_qty) == op = "issue" /\ qty < current_qty

\* both branches subtract
NewQtySubtracts(op, current_qty, qty) == current_qty - qty

\* if mode.startswith("Issue"): if qty > current_qty: st.error(...); return
Insufficient(op, qty, current_qty) == op = "issue" /\ qty > current_qty

NewQty(op, current_qty, qty) ==
    IF op = "issue" THEN current_qty - qty ELSE current_qty + qty

\* page_issue_receive, row i selected, form submitted
page_issue_receive(df, i, mode, qty, reason, t) ==
    IF df = <<>> THEN Outcome("txn", "info", FALSE, df, df, NaN, 0, <<>>) ELSE
    LET selected_id == SelectedId(df, i)
        hits == Matches(df, selected_id)
        op == IF StartsWith(mode, <<"I", "s", "s", "u", "e">>) THEN "issue" ELSE "receive"
    IN  IF hits = {}
        THEN Outcome(op, "exception", FALSE, df, df, selected_id, 0, <<>>)
        ELSE LET idx == MinOf(hits)
                 current_qty == df[idx].quantity
                 line == AuditLine(t, mode, qty, reason)
             IN  IF Insufficient(op, qty, current_qty)
                 THEN Outcome(op, "error", FALSE, df, df, selected_id, idx, <<>>)
                 ELSE LET new_qty == NewQty(op, current_qty, qty)
                      IN  Outcome(op, "success", TRUE, df,
                                  [df EXCEPT ![idx].quantity = new_qty,
                                             ![idx].last_updated = StrfTime(t),
                                             ![idx].remarks = JoinRemarks(@, line)],
                                  selected_id, idx, line)

\* page_admin, row i selected, "Delete selected item" pressed
page_admin(df, i) ==
    IF df = <<>> THEN Outcome("delete", "info", FALSE, df, df, NaN, 0, <<>>) ELSE
    LET selected_id == SelectedId(df, i)
        keep == {j \in 1..Len(df) : ~IdEq(df[j].item_id, selected_id)}
    IN  Outcome("delete", "success", TRUE, df, SelectRows(df, keep),
                selected_id, i, <<>>)

(***************************************************************************)
(* main: one run of the script = load_data, one page, possibly save_data   *)
(***************************************************************************)
Input(kind, i, form, mode, qty, reason, t) ==
    [kind |-> kind, i |-> i, form |-> form, mode |-> mode, qty |-> qty,
     reason |-> reason, t |-> t]

NoInput == Input("none", 0, NoForm, <<>>, 0, <<>>, 0)

\* the page main dispatches to, run on the table df
Page(inp, df) ==
    CASE inp.kind = "add"    -> page_add(df, inp.form, inp.t)
      [] inp.kind = "update" -> page_update(df, inp.i, inp.form, inp.t)
      [] inp.kind = "txn"    ->
            page_issue_receive(df, inp.i, inp.mode, inp.qty, inp.reason, inp.t)
      [] inp.kind = "delete" -> page_admin(df, inp.i)

\* to_csv(mode="a"): the rows are appended to the file
PersistAppend(out, current) == IF out.saved THEN current \o save_data(out.after) ELSE current

\* the file after the run: rewritten in full only when save_data was called
Persist(out, current) == IF out.saved THEN save_data(out.after) ELSE current

\* the table main hands to the page is the one load_data returned in this run
TableOfRun(loaded, e, f) == loaded

(***************************************************************************)
(* Inputs                                                                  *)
(***************************************************************************)
MaxOps == 2

MaxRows == 2

MaxNow == 1

MaxIdRows == 2

A4Paper == <<"A", "4", " ", "P", "a", "p", "e", "r">>

Office == <<"o", "f", "f", "i", "c", "e">>

Pen == <<"P", "e", "n">>

FormA4 ==
    [item_name |-> A4Paper, category |-> <<>>, unit |-> <<>>, location |-> <<>>,
     quantity |-> 0, reorder_level |-> 10, remarks |-> <<>>]

FormBlank ==
    [item_name |-> <<" ">>, category |-> Pen, unit |-> Nos, location |-> <<>>,
     quantity |-> 1, reorder_level |-> 0, remarks |-> <<>>]

FormPen ==
    [item_name |-> <<" ", "P", "e", "n", " ">>, category |-> <<" ">>, unit |-> <<"B", "o", "x">>,
     location |-> <<"M", "a", "i", "n", " ">>, quantity |-> 5, reorder_level |-> 10,
     remarks |-> <<"|", "a">>]

Forms == {FormA4, FormBlank, FormPen}

Reasons == {Office}

Qtys == {3}

ConcQtys == {3, 5}

Stamp0 == StrfTime(0)

FileRow(id, name, cat, unit, qty, reorder, loc, rem) ==
    Row(id, name, cat, unit, qty, reorder, loc, Stamp0, rem)

\* a file written by the application itself
File1 ==
    <<FileRow(FormatId(1), Pen, Pen, <<"B", "o", "x">>, <<"5">>, <<"1", "0">>, <<"M", "a", "i", "n">>, <<>>),
      FileRow(FormatId(2), <<"I", "n", "k">>, Uncategorized, Nos, <<"4">>, <<"0">>, NotSpecified, <<" ", "|", "b">>)>>

\* a file edited by hand: an id that is not STN-nnnn, a missing id, and
\* quantity cells that are not numbers
File2 ==
    <<FileRow(<<"x", "-", "9">>, Pen, <<>>, <<>>, <<"x">>, <<>>, <<>>, <<"|">>),
      FileRow(<<>>, <<"I", "n", "k">>, <<>>, <<>>, <<"1">>, <<"1">>, <<>>, <<>>)>>

InitFiles == {<<FALSE, <<>> >>, <<TRUE, File1>>, <<TRUE, File2>>}

IdPool ==
    {FormatId(1), FormatId(2), FormatId(9999), <<"x">>, <<"a", "-", "2", "-", "5">>, <<" ", "7", " ">>, <<"S", "T", "N", "-">>, <<"+", "3">>, NaN}

IdRow(id) == Row(id, Pen, Pen, Nos, 0, 0, NotSpecified, Stamp0, NaN)

Sessions == {"A", "B"}

IdleSession ==
    [pc |-> "idle", df |-> <<>>, inp |-> NoInput, out |-> NoOutcome,
     loadedAt |-> 0, savedAt |-> 0]

NoRun == [inp |-> NoInput, out |-> NoOutcome, pfile |-> <<>>]

(***************************************************************************)
(* Interactions run one after another (section 5 of the specification:     *)
(* each runs to completion before the next begins)                         *)
(***************************************************************************)
Init ==
    /\ \E f \in InitFiles : exists = f[1] /\ file = f[2]
    /\ now = 0
    /\ nops = 0
    /\ last = NoRun
    /\ prev = NoRun
    /\ assigned = <<>>
    /\ sess = [s \in Sessions |-> IdleSession]
    /\ saves = 0
    /\ arg = <<>>
    /\ res = <<>>

Interact(inp) ==
    LET current == init_data_file(exists, file)
        df      == load_data(exists, file)
        out     == Page(inp, TableOfRun(df, TRUE, current))
    IN  /\ nops < MaxOps
        /\ exists' = TRUE
        /\ file' = Persist(out, current)
        /\ prev' = last
        /\ last' = [inp |-> inp, out |-> out, pfile |-> current]
        /\ nops' = nops + 1
        /\ assigned' = IF out.op = "add" /\ out.saved
                       THEN Append(assigned, out.id) ELSE assigned
        /\ UNCHANGED <<now, sess, saves, arg, res>>

Rows == 1..Len(load_data(exists, file))

AddItem ==
    /\ Len(load_data(exists, file)) < MaxRows
    /\ \E f \in Forms : Interact(Input("add", 0, f, <<>>, 0, <<>>, now))

UpdateItem ==
    \/ Rows = {} /\ Interact(Input("update", 0, NoForm, <<>>, 0, <<>>, now))
    \/ \E i \in Rows, f \in Forms : Interact(Input("update", i, f, <<>>, 0, <<>>, now))

PostTransaction ==
    \/ Rows = {} /\ Interact(Input("txn", 0, NoForm, ModeIssue, 1, <<>>, now))
    \/ \E i \in Rows, m \in Modes, q \in Qtys, r \in Reasons :
          Interact(Input("txn", i, NoForm, m, q, r, now))

DeleteItem ==
    \/ Rows = {} /\ Interact(Input("delete", 0, NoForm, <<>>, 0, <<>>, now))
    \/ \E i \in Rows : Interact(Input("delete", i, NoForm, <<>>, 0, <<>>, now))

Tick ==
    /\ now < MaxNow
    /\ now' = now + 1
    /\ UNCHANGED <<exists, file, nops, last, prev, assigned, sess, saves, arg, res>>

Next == AddItem \/ UpdateItem \/ PostTransaction \/ DeleteItem \/ Tick

Spec == Init /\ [][Next]_vars

(***************************************************************************)
(* Two browser sessions whose runs overlap: each run loads the table, and  *)
(* saves later, with the other session free to act in between              *)
(***************************************************************************)
InitConc ==
    /\ exists = TRUE
    /\ file = File1
    /\ now = 0
    /\ nops = 0
    /\ last = NoRun
    /\ prev = NoRun
    /\ assigned = <<>>
    /\ sess = [s \in Sessions |-> IdleSession]
    /\ saves = 0
    /\ arg = <<>>
    /\ res = <<>>

Load(s) ==
    /\ sess[s].pc = "idle"
    /\ sess' = [sess EXCEPT ![s].pc = "loaded",
                            ![s].df = load_data(exists, file),
                            ![s].loadedAt = saves]
    /\ exists' = TRUE
    /\ file' = init_data_file(exists, file)
    /\ UNCHANGED <<now, nops, last, prev, assigned, saves, arg, res>>

Post(s, inp) ==
    LET out == Page(inp, TableOfRun(sess[s].df, exists, file))
    IN  /\ sess[s].pc = "loaded"
        /\ file' = Persist(out, file)
        /\ saves' = IF out.saved THEN saves + 1 ELSE saves
        /\ sess' = [sess EXCEPT ![s].pc = "done", ![s].inp = inp, ![s].out = out,
                                ![s].savedAt = IF out.saved THEN saves + 1 ELSE 0]
        /\ UNCHANGED <<exists, now, nops, last, prev, assigned, arg, res>>

SRows(s) == 1..Len(sess[s].df)

ConcAdd(s) == \E f \in {FormA4} : Post(s, Input("add", 0, f, <<>>, 0, <<>>, now))

ConcUpdate(s) ==
    \E i \in SRows(s), f \in {FormPen} :
        Post(s, Input("update", i, f, <<>>, 0, <<>>, now))

ConcTransaction(s) ==
    \E i \in SRows(s), m \in Modes, q \in ConcQtys :
        Post(s, Input("txn", i, NoForm, m, q, Office, now))

ConcDelete(s) ==
    \E i \in SRows(s) : Post(s, Input("delete", i, NoForm, <<>>, 0, <<>>, now))

NextConc ==
    \/ \E s \in Sessions : Load(s)
    \/ \E s \in Sessions : ConcAdd(s)
    \/ \E s \in Sessions : ConcUpdate(s)
    \/ \E s \in Sessions : ConcTransaction(s)
    \/ \E s \in Sessions : ConcDelete(s)
    \/ Tick

SpecConc == InitConc /\ [][NextConc]_vars

(***************************************************************************)
(* generate_item_id called directly on an arbitrary table                  *)
(***************************************************************************)
RECURSIVE TablesUpTo(_)
TablesUpTo(n) ==
    IF n = 0 THEN {<<>>}
    ELSE LET shorter == TablesUpTo(n - 1)
         IN  shorter \cup {Append(t, IdRow(id)) : t \in shorter, id \in IdPool}

InitGen ==
    /\ exists = TRUE
    /\ file = <<>>
    /\ now = 0
    /\ nops = 0
    /\ last = NoRun
    /\ prev = NoRun
    /\ assigned = <<>>
    /\ sess = [s \in Sessions |-> IdleSession]
    /\ saves = 0
    /\ arg \in TablesUpTo(MaxIdRows)
    /\ res = <<>>

Generate ==
    /\ res = <<>>
    /\ res' = generate_item_id(arg)
    /\ UNCHANGED <<exists, file, now, nops, last, prev, assigned, sess, saves, arg>>

NextGen == Generate

SpecGen == InitGen /\ [][NextGen]_vars

(***************************************************************************)
(* Properties                                                              *)
(***************************************************************************)
Succeeded(run, kind) == run.inp.kind = kind /\ run.out.msg = "success"

IsIssue(run) == run.inp.kind = "txn" /\ run.inp.mode = ModeIssue /\ run.out.idx # 0

IsReceive(run) == run.inp.kind = "txn" /\ run.inp.mode = ModeReceive /\ run.out.idx # 0

Text(v) == IF v = NaN THEN <<>> ELSE v

RemarksBefore(run) == Text(run.out.before[run.out.idx].remarks)

RemarksAfter(run) == Text(run.out.after[run.out.idx].remarks)

\* "[<timestamp>] <verb> <qty> (<reason>)" for the input of a run
LineWith(verb, run) ==
    <<"[">> \o StrfTime(run.inp.t) \o <<"]", " ">> \o verb \o <<" ">>
        \o StrInt(run.inp.qty) \o <<" ", "(">> \o run.inp.reason \o <<")">>

Count(s, c) == Cardinality({i \in 1..Len(s) : s[i] = c})

C2_NonNegative ==
    /\ \A i \in 1..Len(file) : ToNumeric(file[i].quantity) >= 0
    /\ \A i \in 1..Len(last.out.after) : last.out.after[i].quantity >= 0

C2_Witness ==
    /\ IsIssue(last)
    /\ last.out.saved
    /\ last.out.after[last.out.idx].quantity = 2

\* C3: an Issue of more than the current quantity reports an error and
\* leaves the table and the file as they were; save_data is not called
C3_FailedIssue ==
    (IsIssue(last) /\ last.inp.qty > last.out.before[last.out.idx].quantity)
        => /\ last.out.msg = "error"
           /\ ~last.out.saved
           /\ last.out.after = last.out.before
           /\ file = last.pfile
           /\ load_data(exists, file) = last.out.before

C3_Witness ==
    /\ IsIssue(last)
    /\ last.inp.qty > last.out.before[last.out.idx].quantity
    /\ last.out.msg = "error"
    /\ Succeeded(prev, "update")

\* C4: generate_item_id returns an id no row has; its number is the largest
\* parsable suffix plus 1 (1 if there is none); it is "STN-" and the number
\* zero-padded to at least 4 digits
C4_NextId ==
    res # <<>> =>
        LET nums   == IdNums(arg)
            n      == IF nums = {} THEN 1 ELSE MaxOf(nums) + 1
            digits == SubSeq(res, 5, Len(res))
        IN  /\ \A i \in 1..Len(arg) : arg[i].item_id # res
            /\ IntParses(LastSegment(res)) /\ IntOf(LastSegment(res)) = n
            /\ SubSeq(res, 1, 4) = <<"S", "T", "N", "-">>
            /\ IsDigits(digits) /\ DecVal(digits) = n
            /\ Len(digits) >= 4
            /\ Len(digits) > 4 => digits[1] # "0"

C4_Witness ==
    /\ res = <<"S", "T", "N", "-", "1", "0", "0", "0", "0">>
    /\ Len(arg) = 2
    /\ \E i \in 1..2 : arg[i].item_id # NaN /\ ~IntParses(LastSegment(arg[i].item_id))

\* C5 as stated: the audit line reads "Issued" / "Received", and issuing 3
\* ("office") from 5 leaves 2 with remarks containing "Issued 3 (office)"
C5_Original ==
    /\ (IsIssue(last) /\ last.out.saved)
          => EndsWith(RemarksAfter(last), LineWith(<<"I", "s", "s", "u", "e", "d">>, last))
    /\ (IsReceive(last) /\ last.out.saved)
          => EndsWith(RemarksAfter(last), LineWith(<<"R", "e", "c", "e", "i", "v", "e", "d">>, last))
    /\ (/\ IsIssue(last)
        /\ last.out.before[last.out.idx].quantity = 5
        /\ last.out.before[last.out.idx].reorder_level = 10
        /\ last.inp.qty = 3 /\ last.inp.reason = Office)
          => /\ last.out.after[last.out.idx].quantity = 2
             /\ Contains(RemarksAfter(last), <<"I", "s", "s", "u", "e", "d", " ", "3", " ", "(", "o", "f", "f", "i", "c", "e", ")">>)

\* C5 amended: the audit line reads "[<timestamp>] Issue <qty> (<reason>)" or
\* "[<timestamp>] Receive <qty> (<reason>)" and ends the remarks; issuing 3
\* ("office") from 5 leaves 2 with remarks containing "Issue 3 (office)"
C5_AuditLine ==
    /\ (IsIssue(last) /\ last.out.saved)
          => EndsWith(RemarksAfter(last), LineWith(<<"I", "s", "s", "u", "e">>, last))
    /\ (IsReceive(last) /\ last.out.saved)
          => EndsWith(RemarksAfter(last), LineWith(<<"R", "e", "c", "e", "i", "v", "e">>, last))
    /\ (/\ IsIssue(last)
        /\ last.out.before[last.out.idx].quantity = 5
        /\ last.out.before[last.out.idx].reorder_level = 10
        /\ last.inp.qty = 3 /\ last.inp.reason = Office)
          => /\ last.out.saved
             /\ last.out.after[last.out.idx].quantity = 2
             /\ ToNumeric(file[last.out.idx].quantity) = 2
             /\ Contains(file[last.out.idx].remarks, <<"I", "s", "s", "u", "e", " ", "3", " ", "(", "o", "f", "f", "i", "c", "e", ")">>)

C5_Witness ==
    /\ IsIssue(last)
    /\ last.out.before[last.out.idx].quantity = 5
    /\ last.out.before[last.out.idx].reorder_level = 10
    /\ last.inp.qty = 3 /\ last.inp.reason = Office
    /\ last.out.saved

\* C6: an Issue of qty followed at once by a Receive of qty on the same item
\* restores the quantity and adds two audit lines, the Issue line first
C6_IssueThenReceive ==
    (/\ IsIssue(prev) /\ prev.out.saved
     /\ IsReceive(last) /\ last.out.saved
     /\ IdEq(prev.out.id, last.out.id)
     /\ prev.inp.qty = last.inp.qty)
        => LET i == prev.out.idx
               j == last.out.idx
           IN  /\ i = j
               /\ last.out.after[j].quantity = prev.out.before[i].quantity
               /\ ToNumeric(file[j].quantity) = prev.out.before[i].quantity
               /\ EndsWith(file[j].remarks,
                           LineWith(<<"I", "s", "s", "u", "e">>, prev) \o Separator
                               \o LineWith(<<"R", "e", "c", "e", "i", "v", "e">>, last))
               /\ Count(file[j].remarks, "[") = Count(RemarksBefore(prev), "[") + 2
               /\ Count(file[j].remarks, "]") = Count(RemarksBefore(prev), "]") + 2

C6_Witness ==
    /\ IsIssue(prev) /\ prev.out.saved
    /\ IsReceive(last) /\ last.out.saved
    /\ IdEq(prev.out.id, last.out.id)
    /\ prev.inp.qty = last.inp.qty
    /\ RemarksBefore(prev) # <<>>

\* C7: when two runs both loaded before either saved, the file after both
\* saves is the table the later saver computed from what it loaded; the
\* earlier saver's change is gone (two Receives add only the later quantity)
\* and both runs report success
Overlapped(first, second) ==
    /\ sess[first].pc = "done" /\ sess[second].pc = "done"
    /\ sess[first].out.saved /\ sess[second].out.saved
    /\ sess[first].loadedAt = 0 /\ sess[second].loadedAt = 0
    /\ sess[first].savedAt < sess[second].savedAt

BothReceive(a, b) ==
    /\ IsReceive(sess[a]) /\ IsReceive(sess[b])
    /\ sess[a].inp.i = sess[b].inp.i

C7_LastWriterWins ==
    \A a \in Sessions : \A b \in Sessions \ {a} :
        Overlapped(a, b)
            => /\ sess[a].df = sess[b].df
               /\ file = save_data(Page(sess[b].inp, sess[b].df).after)
               /\ sess[a].out.msg = "success" /\ sess[b].out.msg = "success"
               /\ BothReceive(a, b)
                     => LET i  == sess[b].inp.i
                            q0 == sess[b].df[i].quantity
                        IN  /\ ToNumeric(file[i].quantity) = q0 + sess[b].inp.qty
                            /\ ToNumeric(file[i].quantity)
                                  # q0 + sess[a].inp.qty + sess[b].inp.qty
                            /\ Count(file[i].remarks, "[")
                                  = Count(Text(sess[b].df[i].remarks), "[") + 1

C7_Witness ==
    \E a \in Sessions : \E b \in Sessions \ {a} :
        /\ Overlapped(a, b)
        /\ BothReceive(a, b)
        /\ sess[a].inp.qty = 5 /\ sess[b].inp.qty = 3

\* C8: add rejects a blank name and changes nothing; otherwise it appends one
\* row, keeps the others, uses the id generate_item_id gives for the table
\* before, and fills blank category, unit and location with the defaults
Blank(s) == \A i \in 1..Len(s) : s[i] = " "

C8_AddItem ==
    last.inp.kind = "add" =>
        LET f      == last.inp.form
            before == last.out.before
            after  == last.out.after
        IN  IF Blank(f.item_name)
            THEN /\ last.out.msg = "error"
                 /\ ~last.out.saved
                 /\ file = last.pfile
                 /\ load_data(exists, file) = before
            ELSE /\ last.out.msg = "success"
                 /\ Len(file) = Len(before) + 1
                 /\ file = save_data(after)
                 /\ SubSeq(after, 1, Len(before)) = before
                 /\ after[Len(after)].item_id = generate_item_id(before)
                 /\ Blank(f.category) => after[Len(after)].category = <<"U", "n", "c", "a", "t", "e", "g", "o", "r", "i", "z", "e", "d">>
                 /\ Blank(f.unit) => after[Len(after)].unit = <<"N", "o", "s">>
                 /\ Blank(f.location) => after[Len(after)].location = <<"N", "o", "t", " ", "s", "p", "e", "c", "i", "f", "i", "e", "d">>
                 /\ (before = <<>> /\ f = FormA4)
                       => /\ Len(file) = 1
                          /\ file[1].item_id = <<"S", "T", "N", "-", "0", "0", "0", "1">>
                          /\ file[1].item_name = <<"A", "4", " ", "P", "a", "p", "e", "r">>
                          /\ file[1].category = <<"U", "n", "c", "a", "t", "e", "g", "o", "r", "i", "z", "e", "d">>
                          /\ file[1].unit = <<"N", "o", "s">>
                          /\ file[1].location = <<"N", "o", "t", " ", "s", "p", "e", "c", "i", "f", "i", "e", "d">>
                          /\ file[1].quantity = <<"0">>
                          /\ file[1].reorder_level = <<"1", "0">>

C8_Witness ==
    /\ last.inp.kind = "add" /\ last.inp.form = FormPen /\ last.out.saved
    /\ prev.inp.kind = "add" /\ prev.inp.form = FormA4 /\ prev.out.before = <<>>

\* C9: the number of the id an add assigns exceeds the number of every id in
\* the table at that moment; after the delete of the highest-numbered item
\* the next add gives that number again
Num(id) == IntOf(LastSegment(id))

C10_AppendOnly ==
    (last.inp.kind = "txn" /\ last.out.saved)
        => LET r == RemarksBefore(last)
           IN  RemarksAfter(last)
                  = IF r = <<>> THEN last.out.line
                    ELSE r \o Separator \o last.out.line

====
